---- MODULE Spec2Model ----
(***************************************************************************)
(* Shift Tracker (src/app.js): the shift / patrol state machine, the three *)
(* counters, the notes, and the persistence of the whole state object in   *)
(* one localStorage entry.                                                 *)
(*                                                                         *)
(* Instants: nowIso() returns an ISO-8601 string.  An instant is modelled  *)
(* by the tick of the wall clock it was taken at (a positive integer); the *)
(* JavaScript null of an unset instant is NoTime.  A note id               *)
(* (Date.now().toString()) is modelled by the tick as well.                *)
(* Texts are sequences of one-character strings.                           *)
(***************************************************************************)
EXTENDS Integers, Sequences, FiniteSets, TLC

VARIABLES
    state,          \* the global `state` object {currentShift, lastCompletedShift}
    storage,        \* localStorage[STORAGE_KEY]: NoBlob or a JSON document
    clock,          \* the wall clock read by nowIso() / Date.now()
    storageFaulty,  \* environment: localStorage calls may throw (quota, access denied)
    raised,         \* the handler that ran last ended in an uncaught exception
    notesListEl,    \* DOM: ids of the notes that #notesList shows with a textarea
                    \* and a Delete button (the listeners of renderNotesModal)
    scope,          \* exploration: the handlers this run invokes (see Next)
    budget,         \* exploration: state-changing steps left when scope = "all"
    call            \* history, kept when scope = "all": the handler that ran last

vars == <<state, storage, clock, storageFaulty, raised, notesListEl, scope, budget, call>>

----------------------------------------------------------------------------
(* Bounds of the model *)

MaxClock == 2       \* the clock takes the values 1..MaxClock
MaxCounter == 2     \* increments are explored up to this value
MaxNotes == 2       \* notes per shift explored
TicksPerDay == 2    \* clock ticks per calendar day (for the `date` field)
MaxOps == 4         \* state-changing steps explored when every handler is interleaved

(* Program constants *)

NumPatrols == 5
NoTime == 0

NoShift == [absent |-> TRUE]
NoBlob == [absent |-> TRUE]

Max(a, b) == IF a >= b THEN a ELSE b

\* JavaScript truthiness of an instant (ISO string or null)
Truthy(t) == t # NoTime

----------------------------------------------------------------------------
(* Inputs *)

\* index arguments of startPatrol / endPatrol, in and out of range
PatrolIndexInputs == (0 - 1) .. (NumPatrols + 1)

\* contents of the new-note textarea when Add is pressed
NoteTextInputs == { <<" ">>, <<" ", "a">> }

\* contents of the textarea of an edited note
EditTextInputs == { <<"b">> }

\* ids handed to updateNoteText / deleteNote
NoteIdInputs == 1 .. MaxClock

\* outcome of one localStorage call: TRUE = it returned, FALSE = it threw
StorageOutcomes == IF storageFaulty THEN BOOLEAN ELSE {TRUE}

----------------------------------------------------------------------------
(* Helpers *)

nowIso == clock

DateOf(now) == now \div TicksPerDay

\* safeCounter that lets a negative number through
safeCounter_NoFloor(value) == value

\* a counter in memory is a number (loadState puts 0 for anything else)
safeCounter(value) == IF value >= 0 THEN value ELSE 0

RECURSIVE TrimStart(_)
TrimStart(s) == IF s # <<>> /\ Head(s) = " " THEN TrimStart(Tail(s)) ELSE s

RECURSIVE TrimEnd(_)
TrimEnd(s) ==
    IF s # <<>> /\ s[Len(s)] = " " THEN TrimEnd(SubSeq(s, 1, Len(s) - 1)) ELSE s

Trim(s) == TrimEnd(TrimStart(s))

\* patrols.find((p) => p.startTime && !p.endTime): the 1-based position of
\* the first match, 0 when there is none
FindActive(patrols) ==
    LET hits == { i \in DOMAIN patrols :
                    Truthy(patrols[i].startTime) /\ ~Truthy(patrols[i].endTime) }
    IN  IF hits = {} THEN 0 ELSE CHOOSE i \in hits : \A j \in hits : i <= j

\* notes.findIndex((n) => n.id === id): 1-based, 0 when there is none
FindNote(notes, id) ==
    LET hits == { i \in DOMAIN notes : notes[i].id = id }
    IN  IF hits = {} THEN 0 ELSE CHOOSE i \in hits : \A j \in hits : i <= j

RemoveAt(s, i) == [ k \in 1 .. (Len(s) - 1) |-> IF k < i THEN s[k] ELSE s[k + 1] ]

----------------------------------------------------------------------------
(* JSON documents: what JSON.stringify writes and JSON.parse reads back.    *)
(* A document is a tagged value; an absent property reads as JUndefined.    *)

JNull == [type |-> "null"]
JUndefined == [type |-> "undefined"]
JNum(n) == [type |-> "number", v |-> n]
JStr(s) == [type |-> "string", v |-> s]
JBool(b) == [type |-> "boolean", v |-> b]
JArr(a) == [type |-> "array", v |-> a]
JObj(r) == [type |-> "object", v |-> r]

\* an entry whose text JSON.parse rejects
Unparsable == [type |-> "unparsable"]

\* the JavaScript typeof of a parsed value
TypeOf(j) == IF j.type \in {"null", "array"} THEN "object" ELSE j.type

\* JavaScript truthiness of a parsed value
JTruthy(j) ==
    CASE j.type \in {"null", "undefined"} -> FALSE
      [] j.type = "boolean" -> j.v
      [] j.type = "number" -> j.v # 0
      [] j.type = "string" -> j.v # <<>>
      [] OTHER -> TRUE

\* property read obj.key on a parsed value
JGet(j, key) ==
    IF j.type = "object" /\ key \in DOMAIN j.v THEN j.v[key] ELSE JUndefined

JsonOfInstant(t) == IF t = NoTime THEN JNull ELSE JStr(t)

JsonOfPatrol(p) ==
    JObj([index |-> JNum(p.index),
          startTime |-> JsonOfInstant(p.startTime),
          endTime |-> JsonOfInstant(p.endTime)])

JsonOfNote(n) ==
    JObj([id |-> JStr(n.id), timestamp |-> JStr(n.timestamp), text |-> JStr(n.text)])

JsonOfShift(s) ==
    IF s = NoShift THEN JNull
    ELSE JObj([id |-> JStr(s.id),
               date |-> JStr(s.date),
               startTime |-> JsonOfInstant(s.startTime),
               endTime |-> JsonOfInstant(s.endTime),
               engagements |-> JNum(s.engagements),
               streetDrinkers |-> JNum(s.streetDrinkers),
               asbIncidents |-> JNum(s.asbIncidents),
               notes |-> JArr([ i \in DOMAIN s.notes |-> JsonOfNote(s.notes[i]) ]),
               notesLocked |-> JBool(s.notesLocked),
               patrols |-> JArr([ i \in DOMAIN s.patrols |-> JsonOfPatrol(s.patrols[i]) ])])

\* JSON.stringify(state)
Stringify(st) ==
    JObj([currentShift |-> JsonOfShift(st.currentShift),
          lastCompletedShift |-> JsonOfShift(st.lastCompletedShift)])

\* the in-memory value of a parsed instant, note and patrol
InstantOfJson(j) == IF j.type = "string" THEN j.v ELSE NoTime

NoteOfJson(j) ==
    [id |-> JGet(j, "id").v, timestamp |-> JGet(j, "timestamp").v,
     text |-> JGet(j, "text").v]

PatrolOfJson(j) ==
    [index |-> JGet(j, "index").v,
     startTime |-> InstantOfJson(JGet(j, "startTime")),
     endTime |-> InstantOfJson(JGet(j, "endTime"))]

\* the counter normalisation of loadState: typeof x !== "number" -> 0
CounterOfJson(j) == IF TypeOf(j) # "number" THEN 0 ELSE j.v

\* ensureNotesStructure on a parsed shift
NotesOfJson(j) ==
    IF j.type # "array" THEN <<>> ELSE [ i \in DOMAIN j.v |-> NoteOfJson(j.v[i]) ]

\* ensureNotesStructure that locks the notes whatever was stored
NotesLockedOfJson_AlwaysLocked(j) == TRUE

\* ensureNotesStructure that defaults to unlocked
NotesLockedOfJson_DefaultsUnlocked(j) == IF TypeOf(j) # "boolean" THEN FALSE ELSE j.v

NotesLockedOfJson(j) == IF TypeOf(j) # "boolean" THEN TRUE ELSE j.v

\* `parsed.currentShift || null` followed by the normalisation of loadState
ShiftOfJson(j) ==
    IF ~JTruthy(j) THEN NoShift
    ELSE [id |-> InstantOfJson(JGet(j, "id")),
          date |-> JGet(j, "date").v,
          startTime |-> InstantOfJson(JGet(j, "startTime")),
          endTime |-> InstantOfJson(JGet(j, "endTime")),
          engagements |-> CounterOfJson(JGet(j, "engagements")),
          streetDrinkers |-> CounterOfJson(JGet(j, "streetDrinkers")),
          asbIncidents |-> CounterOfJson(JGet(j, "asbIncidents")),
          notes |-> NotesOfJson(JGet(j, "notes")),
          notesLocked |-> NotesLockedOfJson(JGet(j, "notesLocked")),
          patrols |-> [ i \in DOMAIN JGet(j, "patrols").v |->
                          PatrolOfJson(JGet(j, "patrols").v[i]) ]]

InitialState == [currentShift |-> NoShift, lastCompletedShift |-> NoShift]

\* loadState(): the state object after loading `raw` into `st`;
\* getOk = FALSE is localStorage.getItem throwing
loadState(st, raw, getOk) ==
    IF ~getOk THEN st
    ELSE IF raw = NoBlob THEN st
    ELSE IF raw = Unparsable THEN st
    ELSE IF JTruthy(raw) /\ TypeOf(raw) = "object"
         THEN [currentShift |-> ShiftOfJson(JGet(raw, "currentShift")),
               lastCompletedShift |-> ShiftOfJson(JGet(raw, "lastCompletedShift"))]
         ELSE st

\* saveState(): the blob after saving `st`; setOk = FALSE is setItem throwing
saveState(st, old, setOk) == IF setOk THEN Stringify(st) ELSE old

----------------------------------------------------------------------------
(* The shift of the current slot *)

cur == state.currentShift

\* the guard `!state.currentShift || state.currentShift.endTime`
NoActiveShift == cur = NoShift \/ Truthy(cur.endTime)

\* a patrol numbered from 0, like its array position
NewPatrol_ZeroBased(idx) == [index |-> idx, startTime |-> NoTime, endTime |-> NoTime]

NewPatrol(idx) == [index |-> idx + 1, startTime |-> NoTime, endTime |-> NoTime]

NewShift(now) ==
    [id |-> now,
     date |-> DateOf(now),
     startTime |-> now,
     endTime |-> NoTime,
     engagements |-> 0,
     streetDrinkers |-> 0,
     asbIncidents |-> 0,
     notes |-> <<>>,
     notesLocked |-> TRUE,
     patrols |-> [ i \in 1 .. NumPatrols |-> NewPatrol(i - 1) ]]

----------------------------------------------------------------------------
(* Actions: shifts and patrols *)

\* startShift without the `already active` guard
startShift_NoGuard ==
    /\ \E ok \in StorageOutcomes :
          /\ state' = [state EXCEPT !.currentShift = NewShift(nowIso)]
          /\ storage' = saveState(state', storage, ok)
    /\ raised' = FALSE
    /\ UNCHANGED <<clock, storageFaulty, notesListEl>>

startShift ==
    /\ \E ok \in StorageOutcomes :
          IF cur # NoShift /\ ~Truthy(cur.endTime)
          THEN UNCHANGED <<state, storage>>
          ELSE /\ state' = [state EXCEPT !.currentShift = NewShift(nowIso)]
               /\ storage' = saveState(state', storage, ok)
    /\ raised' = FALSE
    /\ UNCHANGED <<clock, storageFaulty, notesListEl>>

\* endShift that forgets to close the active patrol
EndedShift_NoAutoClose(shift, now) == [shift EXCEPT !.endTime = now]

\* endShift that closes every patrol that has no endTime, started or not
EndedShift_ClosesUnstarted(shift, now) ==
    [shift EXCEPT
        !.patrols = [ i \in DOMAIN shift.patrols |->
                        IF Truthy(shift.patrols[i].endTime) THEN shift.patrols[i]
                        ELSE [shift.patrols[i] EXCEPT !.endTime = now] ],
        !.endTime = now]

\* endShift that stamps the shift with its own startTime
EndedShift_StampsStart(shift, now) ==
    LET a == FindActive(shift.patrols)
        closed == IF a # 0
                  THEN [shift.patrols EXCEPT ![a].endTime = now]
                  ELSE shift.patrols
    IN  [shift EXCEPT !.patrols = closed, !.endTime = shift.startTime]

\* the shift as endShift leaves it: the active patrol closed, endTime set
EndedShift(shift, now) ==
    LET a == FindActive(shift.patrols)
        closed == IF a # 0
                  THEN [shift.patrols EXCEPT ![a].endTime = now]
                  ELSE shift.patrols
    IN  [shift EXCEPT !.patrols = closed, !.endTime = now]

\* endShift that leaves the ended shift in the current slot as well
endShift_KeepsCurrent ==
    /\ \E ok \in StorageOutcomes :
          IF NoActiveShift
          THEN UNCHANGED <<state, storage>>
          ELSE /\ state' = [currentShift |-> EndedShift(cur, nowIso),
                            lastCompletedShift |-> EndedShift(cur, nowIso)]
               /\ storage' = saveState(state', storage, ok)
    /\ raised' = FALSE
    /\ UNCHANGED <<clock, storageFaulty, notesListEl>>

endShift ==
    /\ \E ok \in StorageOutcomes :
          IF NoActiveShift
          THEN UNCHANGED <<state, storage>>
          ELSE /\ state' = [currentShift |-> NoShift,
                            lastCompletedShift |-> EndedShift(cur, nowIso)]
               /\ storage' = saveState(state', storage, ok)
    /\ raised' = FALSE
    /\ UNCHANGED <<clock, storageFaulty, notesListEl>>

\* startPatrol with neither the exclusivity nor the sequencing guard
StartPatrolOutcome_Unguarded(index) ==
    IF NoActiveShift THEN "return"
    ELSE IF index < 0 \/ index >= NumPatrols THEN "throw"
    ELSE IF /\ ~Truthy(cur.patrols[index + 1].startTime)
            /\ ~Truthy(cur.patrols[index + 1].endTime) THEN "start"
    ELSE "return"

\* startPatrol without the sequencing guard on the previous patrol
StartPatrolOutcome_NoSequencing(index) ==
    IF NoActiveShift THEN "return"
    ELSE IF FindActive(cur.patrols) # 0 THEN "return"
    ELSE IF index < 0 \/ index >= NumPatrols THEN "throw"
    ELSE IF /\ ~Truthy(cur.patrols[index + 1].startTime)
            /\ ~Truthy(cur.patrols[index + 1].endTime) THEN "start"
    ELSE "return"

\* startPatrol without the final test that the patrol was never started
StartPatrolOutcome_NoPendingCheck(index) ==
    IF NoActiveShift THEN "return"
    ELSE IF FindActive(cur.patrols) # 0 THEN "return"
    ELSE IF index > 0 /\ index - 1 >= NumPatrols THEN "throw"
    ELSE IF index > 0 /\ ~Truthy(cur.patrols[index].endTime) THEN "return"
    ELSE IF index < 0 \/ index >= NumPatrols THEN "throw"
    ELSE "start"

\* startPatrol whose sequencing guard looks one patrol too far back
StartPatrolOutcome_PrevOffByOne(index) ==
    IF NoActiveShift THEN "return"
    ELSE IF FindActive(cur.patrols) # 0 THEN "return"
    ELSE IF index > 1 /\ index - 2 >= NumPatrols THEN "throw"
    ELSE IF index > 1 /\ ~Truthy(cur.patrols[index - 1].endTime) THEN "return"
    ELSE IF index < 0 \/ index >= NumPatrols THEN "throw"
    ELSE IF /\ ~Truthy(cur.patrols[index + 1].startTime)
            /\ ~Truthy(cur.patrols[index + 1].endTime) THEN "start"
    ELSE "return"

\* startPatrol(index), statement by statement.  patrols[index - 1] and
\* patrols[index] are dereferenced without a check that they exist: a
\* TypeError when such a read is reached with the element undefined.
StartPatrolOutcome(index) ==
    IF NoActiveShift THEN "return"
    ELSE IF FindActive(cur.patrols) # 0 THEN "return"
    ELSE IF index > 0 /\ index - 1 >= NumPatrols THEN "throw"
    ELSE IF index > 0 /\ ~Truthy(cur.patrols[index].endTime) THEN "return"
    ELSE IF index < 0 \/ index >= NumPatrols THEN "throw"
    ELSE IF /\ ~Truthy(cur.patrols[index + 1].startTime)
            /\ ~Truthy(cur.patrols[index + 1].endTime) THEN "start"
    ELSE "return"

startPatrol(index) ==
    /\ \E ok \in StorageOutcomes :
          IF StartPatrolOutcome(index) = "start"
          THEN /\ state' = [state EXCEPT
                     !.currentShift.patrols[index + 1].startTime = nowIso]
               /\ storage' = saveState(state', storage, ok)
          ELSE UNCHANGED <<state, storage>>
    /\ raised' = (StartPatrolOutcome(index) = "throw")
    /\ UNCHANGED <<clock, storageFaulty, notesListEl>>

\* endPatrol that only checks that the patrol has no endTime yet
EndPatrolProceeds_IgnoresStart(index) ==
    /\ ~NoActiveShift
    /\ index >= 0 /\ index < NumPatrols
    /\ ~Truthy(cur.patrols[index + 1].endTime)

\* endPatrol whose guard looks at the patrol before the one it ends
EndPatrolProceeds_OffByOne(index) ==
    /\ ~NoActiveShift
    /\ index >= 1 /\ index < NumPatrols
    /\ Truthy(cur.patrols[index].startTime)
    /\ ~Truthy(cur.patrols[index].endTime)

\* endPatrol that does not check that the patrol is still running
EndPatrolProceeds_IgnoresEnd(index) ==
    /\ ~NoActiveShift
    /\ index >= 0 /\ index < NumPatrols
    /\ Truthy(cur.patrols[index + 1].startTime)

\* the guards of endPatrol: `patrol && patrol.startTime && !patrol.endTime`
EndPatrolProceeds(index) ==
    /\ ~NoActiveShift
    /\ index >= 0 /\ index < NumPatrols
    /\ Truthy(cur.patrols[index + 1].startTime)
    /\ ~Truthy(cur.patrols[index + 1].endTime)

endPatrol(index) ==
    /\ \E ok \in StorageOutcomes :
          IF EndPatrolProceeds(index)
          THEN /\ state' = [state EXCEPT
                     !.currentShift.patrols[index + 1].endTime = nowIso]
               /\ storage' = saveState(state', storage, ok)
          ELSE UNCHANGED <<state, storage>>
    /\ raised' = FALSE
    /\ UNCHANGED <<clock, storageFaulty, notesListEl>>

\* resetAllData that does not look at the answer of window.confirm
resetAllDataWith_IgnoresAnswer(confirmed, removeOk, setOk) ==
    /\ IF state.currentShift = NoShift /\ state.lastCompletedShift = NoShift
       THEN UNCHANGED <<state, storage>>
       ELSE /\ state' = InitialState
            /\ storage' = IF removeOk THEN NoBlob
                          ELSE saveState(state', storage, setOk)
    /\ raised' = FALSE
    /\ UNCHANGED <<clock, storageFaulty, notesListEl>>

\* resetAllData whose catch block only logs
resetAllDataWith_NoFallback(confirmed, removeOk, setOk) ==
    /\ IF state.currentShift = NoShift /\ state.lastCompletedShift = NoShift
       THEN UNCHANGED <<state, storage>>
       ELSE IF ~confirmed
       THEN UNCHANGED <<state, storage>>
       ELSE /\ state' = InitialState
            /\ storage' = IF removeOk THEN NoBlob ELSE storage
    /\ raised' = FALSE
    /\ UNCHANGED <<clock, storageFaulty, notesListEl>>

\* resetAllData: confirmed is the answer of window.confirm; removeOk and
\* setOk are the outcomes of removeItem and of the fallback saveState
resetAllDataWith(confirmed, removeOk, setOk) ==
    /\ IF state.currentShift = NoShift /\ state.lastCompletedShift = NoShift
       THEN UNCHANGED <<state, storage>>
       ELSE IF ~confirmed
       THEN UNCHANGED <<state, storage>>
       ELSE /\ state' = InitialState
            /\ storage' = IF removeOk THEN NoBlob
                          ELSE saveState(state', storage, setOk)
    /\ raised' = FALSE
    /\ UNCHANGED <<clock, storageFaulty, notesListEl>>

\* resetAllData whose `hasAnyData` looks at the current shift only
resetAllData_ChecksCurrentOnly(confirmed) ==
    /\ \E removeOk \in StorageOutcomes, setOk \in StorageOutcomes :
          IF state.currentShift = NoShift
          THEN UNCHANGED <<state, storage>>
          ELSE IF ~confirmed
          THEN UNCHANGED <<state, storage>>
          ELSE /\ state' = InitialState
               /\ storage' = IF removeOk THEN NoBlob
                             ELSE saveState(state', storage, setOk)
    /\ raised' = FALSE
    /\ UNCHANGED <<clock, storageFaulty, notesListEl>>

resetAllData(confirmed) ==
    \E removeOk \in StorageOutcomes, setOk \in StorageOutcomes :
        resetAllDataWith(confirmed, removeOk, setOk)

----------------------------------------------------------------------------
(* Actions: counters *)

getCurrentEngagements == IF cur = NoShift THEN 0 ELSE safeCounter(cur.engagements)

\* a setter that falls back to the last completed shift when there is no
\* current one
setCurrentEngagements_FallsBackToLast(newValue, ok) ==
    IF cur = NoShift /\ state.lastCompletedShift # NoShift
    THEN /\ state' = [state EXCEPT !.lastCompletedShift.engagements = Max(0, newValue)]
         /\ storage' = saveState(state', storage, ok)
    ELSE IF NoActiveShift
    THEN UNCHANGED <<state, storage>>
    ELSE /\ state' = [state EXCEPT !.currentShift.engagements = Max(0, newValue)]
         /\ storage' = saveState(state', storage, ok)

setCurrentEngagements(newValue, ok) ==
    IF NoActiveShift
    THEN UNCHANGED <<state, storage>>
    ELSE /\ state' = [state EXCEPT !.currentShift.engagements = Max(0, newValue)]
         /\ storage' = saveState(state', storage, ok)

getCurrentStreetDrinkers == IF cur = NoShift THEN 0 ELSE safeCounter(cur.streetDrinkers)

setCurrentStreetDrinkers(newValue, ok) ==
    IF NoActiveShift
    THEN UNCHANGED <<state, storage>>
    ELSE /\ state' = [state EXCEPT !.currentShift.streetDrinkers = Max(0, newValue)]
         /\ storage' = saveState(state', storage, ok)

getCurrentAsbIncidents == IF cur = NoShift THEN 0 ELSE safeCounter(cur.asbIncidents)

setCurrentAsbIncidents(newValue, ok) ==
    IF NoActiveShift
    THEN UNCHANGED <<state, storage>>
    ELSE /\ state' = [state EXCEPT !.currentShift.asbIncidents = Max(0, newValue)]
         /\ storage' = saveState(state', storage, ok)

incrementEngagements ==
    /\ getCurrentEngagements < MaxCounter
    /\ \E ok \in StorageOutcomes :
          setCurrentEngagements(getCurrentEngagements + 1, ok)
    /\ raised' = FALSE
    /\ UNCHANGED <<clock, storageFaulty, notesListEl>>

decrementEngagements ==
    /\ \E ok \in StorageOutcomes :
          IF getCurrentEngagements <= 0
          THEN UNCHANGED <<state, storage>>
          ELSE setCurrentEngagements(getCurrentEngagements - 1, ok)
    /\ raised' = FALSE
    /\ UNCHANGED <<clock, storageFaulty, notesListEl>>

incrementStreetDrinkers ==
    /\ getCurrentStreetDrinkers < MaxCounter
    /\ \E ok \in StorageOutcomes :
          setCurrentStreetDrinkers(getCurrentStreetDrinkers + 1, ok)
    /\ raised' = FALSE
    /\ UNCHANGED <<clock, storageFaulty, notesListEl>>

\* decrementStreetDrinkers pasted from incrementStreetDrinkers and left as it was
decrementStreetDrinkers_AsIncrement ==
    /\ getCurrentStreetDrinkers < MaxCounter
    /\ \E ok \in StorageOutcomes :
          setCurrentStreetDrinkers(getCurrentStreetDrinkers + 1, ok)
    /\ raised' = FALSE
    /\ UNCHANGED <<clock, storageFaulty, notesListEl>>

decrementStreetDrinkers ==
    /\ \E ok \in StorageOutcomes :
          IF getCurrentStreetDrinkers <= 0
          THEN UNCHANGED <<state, storage>>
          ELSE setCurrentStreetDrinkers(getCurrentStreetDrinkers - 1, ok)
    /\ raised' = FALSE
    /\ UNCHANGED <<clock, storageFaulty, notesListEl>>

incrementAsbIncidents ==
    /\ getCurrentAsbIncidents < MaxCounter
    /\ \E ok \in StorageOutcomes :
          setCurrentAsbIncidents(getCurrentAsbIncidents + 1, ok)
    /\ raised' = FALSE
    /\ UNCHANGED <<clock, storageFaulty, notesListEl>>

decrementAsbIncidents ==
    /\ \E ok \in StorageOutcomes :
          IF getCurrentAsbIncidents <= 0
          THEN UNCHANGED <<state, storage>>
          ELSE setCurrentAsbIncidents(getCurrentAsbIncidents - 1, ok)
    /\ raised' = FALSE
    /\ UNCHANGED <<clock, storageFaulty, notesListEl>>

----------------------------------------------------------------------------
(* Actions: notes *)

\* renderNotesModal that builds the editing controls whatever the lock is
RenderNotesList_IgnoresLock(st, shown) ==
    IF st.currentShift = NoShift THEN shown
    ELSE { st.currentShift.notes[i].id : i \in DOMAIN st.currentShift.notes }

\* renderNotesModal(): the notes list after rendering state object `st`
\* over a list that showed `shown`
RenderNotesList(st, shown) ==
    IF st.currentShift = NoShift THEN shown
    ELSE IF st.currentShift.notesLocked THEN {}
    ELSE { st.currentShift.notes[i].id : i \in DOMAIN st.currentShift.notes }

openNotesModal ==
    /\ notesListEl' = RenderNotesList(state, notesListEl)
    /\ raised' = FALSE
    /\ UNCHANGED <<state, storage, clock, storageFaulty>>

\* toggleNotesLock that does not call saveState
toggleNotesLock_NoSave ==
    /\ IF cur = NoShift
       THEN UNCHANGED state
       ELSE state' = [state EXCEPT !.currentShift.notesLocked = ~cur.notesLocked]
    /\ notesListEl' = IF cur = NoShift THEN notesListEl
                      ELSE RenderNotesList(state', notesListEl)
    /\ raised' = FALSE
    /\ UNCHANGED <<storage, clock, storageFaulty>>

toggleNotesLock ==
    /\ \E ok \in StorageOutcomes :
          IF cur = NoShift
          THEN UNCHANGED <<state, storage>>
          ELSE /\ state' = [state EXCEPT !.currentShift.notesLocked = ~cur.notesLocked]
               /\ storage' = saveState(state', storage, ok)
    /\ notesListEl' = IF cur = NoShift THEN notesListEl
                      ELSE RenderNotesList(state', notesListEl)
    /\ raised' = FALSE
    /\ UNCHANGED <<clock, storageFaulty>>

\* addNote that falls back to the last completed shift when there is no
\* current one
addNote_FallsBackToLast(value) ==
    /\ \E ok \in StorageOutcomes :
          IF Trim(value) = <<>> \/ (cur = NoShift /\ state.lastCompletedShift = NoShift)
          THEN UNCHANGED <<state, storage>>
          ELSE IF cur = NoShift
          THEN /\ Len(state.lastCompletedShift.notes) < MaxNotes
               /\ state' = [state EXCEPT !.lastCompletedShift.notes =
                     Append(state.lastCompletedShift.notes,
                            [id |-> clock, timestamp |-> nowIso, text |-> Trim(value)])]
               /\ storage' = saveState(state', storage, ok)
          ELSE /\ Len(cur.notes) < MaxNotes
               /\ state' = [state EXCEPT !.currentShift.notes =
                     Append(cur.notes,
                            [id |-> clock, timestamp |-> nowIso, text |-> Trim(value)])]
               /\ storage' = saveState(state', storage, ok)
    /\ notesListEl' = RenderNotesList(state', notesListEl)
    /\ raised' = FALSE
    /\ UNCHANGED <<clock, storageFaulty>>

\* value is the content of the new-note textarea when the button is pressed
addNote(value) ==
    /\ cur # NoShift /\ Trim(value) # <<>> => Len(cur.notes) < MaxNotes
    /\ \E ok \in StorageOutcomes :
          IF cur = NoShift \/ Trim(value) = <<>>
          THEN UNCHANGED <<state, storage>>
          ELSE /\ state' = [state EXCEPT !.currentShift.notes =
                     Append(cur.notes,
                            [id |-> clock, timestamp |-> nowIso, text |-> Trim(value)])]
               /\ storage' = saveState(state', storage, ok)
    /\ notesListEl' = IF cur = NoShift \/ Trim(value) = <<>> THEN notesListEl
                      ELSE RenderNotesList(state', notesListEl)
    /\ raised' = FALSE
    /\ UNCHANGED <<clock, storageFaulty>>

updateNoteText(id, newText) ==
    /\ \E ok \in StorageOutcomes :
          IF cur = NoShift \/ FindNote(cur.notes, id) = 0
          THEN UNCHANGED <<state, storage>>
          ELSE /\ state' = [state EXCEPT
                     !.currentShift.notes[FindNote(cur.notes, id)].text = newText]
               /\ storage' = saveState(state', storage, ok)
    /\ raised' = FALSE
    /\ UNCHANGED <<clock, storageFaulty, notesListEl>>

\* deleteNote written with filter: it removes every note that has the id
deleteNote_RemovesAllMatching(id) ==
    /\ \E ok \in StorageOutcomes :
          IF cur = NoShift \/ FindNote(cur.notes, id) = 0
          THEN UNCHANGED <<state, storage>>
          ELSE /\ state' = [state EXCEPT !.currentShift.notes =
                     SelectSeq(cur.notes, LAMBDA n : n.id # id)]
               /\ storage' = saveState(state', storage, ok)
    /\ notesListEl' = IF cur = NoShift \/ FindNote(cur.notes, id) = 0 THEN notesListEl
                      ELSE RenderNotesList(state', notesListEl)
    /\ raised' = FALSE
    /\ UNCHANGED <<clock, storageFaulty>>

deleteNote(id) ==
    /\ \E ok \in StorageOutcomes :
          IF cur = NoShift \/ FindNote(cur.notes, id) = 0
          THEN UNCHANGED <<state, storage>>
          ELSE /\ state' = [state EXCEPT !.currentShift.notes =
                     RemoveAt(cur.notes, FindNote(cur.notes, id))]
               /\ storage' = saveState(state', storage, ok)
    /\ notesListEl' = IF cur = NoShift \/ FindNote(cur.notes, id) = 0 THEN notesListEl
                      ELSE RenderNotesList(state', notesListEl)
    /\ raised' = FALSE
    /\ UNCHANGED <<clock, storageFaulty>>

\* the `input` listener of a note's textarea and the `click` listener of its
\* Delete button: they exist for the notes the list shows with controls
inputNoteTextarea(id, newText) == id \in notesListEl /\ updateNoteText(id, newText)

clickDeleteNote(id) == id \in notesListEl /\ deleteNote(id)

----------------------------------------------------------------------------
(* The summary of the last completed shift (renderSummary) *)

\* new Date(iso) as milliseconds: one tick of the clock is one unit, and
\* new Date(null) is the epoch
MsOfInstant(t) == IF t = NoTime THEN 0 ELSE t

getPatrolDurationMs(patrol) ==
    IF ~Truthy(patrol.startTime) \/ ~Truthy(patrol.endTime) THEN 0
    ELSE MsOfInstant(patrol.endTime) - MsOfInstant(patrol.startTime)

\* the first forEach of renderSummary: totalPatrolMs accumulated in order
RECURSIVE totalPatrolMs(_)
totalPatrolMs(patrols) ==
    IF patrols = <<>> THEN 0
    ELSE totalPatrolMs(SubSeq(patrols, 1, Len(patrols) - 1))
           + getPatrolDurationMs(patrols[Len(patrols)])

\* a breakdown that lists every patrol, touched or not
RECURSIVE patrolLines_ListsAll(_)
patrolLines_ListsAll(patrols) ==
    IF patrols = <<>> THEN <<>>
    ELSE LET p == patrols[Len(patrols)]
             before == patrolLines_ListsAll(SubSeq(patrols, 1, Len(patrols) - 1))
         IN  Append(before, [label |-> p.index, value |-> getPatrolDurationMs(p)])

\* the second forEach: one row (`Patrol <index>`, duration) per patrol that
\* is not skipped by `if (!p.startTime && !p.endTime) return`
RECURSIVE patrolLines(_)
patrolLines(patrols) ==
    IF patrols = <<>> THEN <<>>
    ELSE LET p == patrols[Len(patrols)]
             before == patrolLines(SubSeq(patrols, 1, Len(patrols) - 1))
         IN  IF ~Truthy(p.startTime) /\ ~Truthy(p.endTime) THEN before
             ELSE Append(before, [label |-> p.index, value |-> getPatrolDurationMs(p)])

----------------------------------------------------------------------------
(* Page load and environment *)

\* DOMContentLoaded: a fresh state object, then loadState()
Reload ==
    /\ \E getOk \in StorageOutcomes :
          state' = loadState(InitialState, storage, getOk)
    /\ raised' = FALSE
    /\ notesListEl' = {}
    /\ UNCHANGED <<storage, clock, storageFaulty>>

\* the wall clock advances
Tick ==
    /\ clock < MaxClock
    /\ clock' = clock + 1
    /\ UNCHANGED <<state, storage, storageFaulty, raised, notesListEl>>

----------------------------------------------------------------------------
(* Exploration.  The shift handlers, the page load and the clock are part  *)
(* of every run.  A run of scope "patrols", "counters" or "notes" adds the *)
(* handlers of that subsystem and is explored to any depth; a run of scope *)
(* "all" interleaves every handler, up to MaxOps state-changing steps, and *)
(* records in `call` the handler that ran last, its argument (0 when it    *)
(* takes none or a text; 1 / 0 for a granted / declined confirmation) and  *)
(* whether it changed the state object or the blob.                        *)

Scopes == {"all", "patrols", "counters", "notes"}

program == <<state, storage, clock>>

Step(sub, op, arg, A) ==
    /\ scope \in {"all"} \cup sub
    /\ A
    /\ scope = "all" => (budget > 0 \/ program' = program)
    /\ budget' = IF scope = "all" /\ program' # program THEN budget - 1 ELSE budget
    /\ call' = IF scope \in {"all", "stored"}
               THEN [op |-> op, arg |-> arg,
                     changed |-> <<state, storage>>' # <<state, storage>>]
               ELSE call
    /\ UNCHANGED scope

Init ==
    /\ state = InitialState
    /\ storage = NoBlob
    /\ clock = 1
    /\ storageFaulty = FALSE
    /\ raised = FALSE
    /\ notesListEl = {}
    /\ scope \in Scopes
    /\ budget = IF scope = "all" THEN MaxOps ELSE 0
    /\ call = [op |-> "init", arg |-> 0, changed |-> FALSE]

Next ==
    \/ Step(Scopes, "startShift", 0, startShift)
    \/ Step(Scopes, "endShift", 0, endShift)
    \/ \E confirmed \in BOOLEAN :
          Step(Scopes, "resetAllData", IF confirmed THEN 1 ELSE 0, resetAllData(confirmed))
    \/ Step(Scopes, "loadState", 0, Reload)
    \/ Step(Scopes, "tick", 0, Tick)
    \/ \E index \in PatrolIndexInputs :
          Step({"patrols"}, "startPatrol", index, startPatrol(index))
    \/ \E index \in PatrolIndexInputs :
          Step({"patrols"}, "endPatrol", index, endPatrol(index))
    \/ Step({"counters"}, "incrementEngagements", 0, incrementEngagements)
    \/ Step({"counters"}, "decrementEngagements", 0, decrementEngagements)
    \/ Step({"counters"}, "incrementStreetDrinkers", 0, incrementStreetDrinkers)
    \/ Step({"counters"}, "decrementStreetDrinkers", 0, decrementStreetDrinkers)
    \/ Step({"counters"}, "incrementAsbIncidents", 0, incrementAsbIncidents)
    \/ Step({"counters"}, "decrementAsbIncidents", 0, decrementAsbIncidents)
    \/ Step({"notes"}, "openNotesModal", 0, openNotesModal)
    \/ Step({"notes"}, "toggleNotesLock", 0, toggleNotesLock)
    \/ \E value \in NoteTextInputs :
          Step({"notes"}, "addNote", 0, addNote(value))
    \/ \E id \in NoteIdInputs, newText \in EditTextInputs :
          Step({"notes"}, "updateNoteText", id, updateNoteText(id, newText))
    \/ \E id \in NoteIdInputs :
          Step({"notes"}, "deleteNote", id, deleteNote(id))

Spec == Init /\ [][Next]_vars

(* The notes as the page drives them: updateNoteText and deleteNote run    *)
(* only from the listeners renderNotesModal attached, with the id of the   *)
(* note each was created for.                                              *)
InitUI ==
    /\ state = InitialState
    /\ storage = NoBlob
    /\ clock = 1
    /\ storageFaulty = FALSE
    /\ raised = FALSE
    /\ notesListEl = {}
    /\ scope = "ui"
    /\ budget = 0
    /\ call = [op |-> "init", arg |-> 0, changed |-> FALSE]

NextUI ==
    \/ Step({"ui"}, "startShift", 0, startShift)
    \/ Step({"ui"}, "endShift", 0, endShift)
    \/ \E confirmed \in BOOLEAN :
          Step({"ui"}, "resetAllData", IF confirmed THEN 1 ELSE 0, resetAllData(confirmed))
    \/ Step({"ui"}, "loadState", 0, Reload)
    \/ Step({"ui"}, "tick", 0, Tick)
    \/ Step({"ui"}, "openNotesModal", 0, openNotesModal)
    \/ Step({"ui"}, "toggleNotesLock", 0, toggleNotesLock)
    \/ \E value \in NoteTextInputs :
          Step({"ui"}, "addNote", 0, addNote(value))
    \/ \E id \in NoteIdInputs, newText \in EditTextInputs :
          Step({"ui"}, "updateNoteText", id, inputNoteTextarea(id, newText))
    \/ \E id \in NoteIdInputs :
          Step({"ui"}, "deleteNote", id, clickDeleteNote(id))

SpecUI == InitUI /\ [][NextUI]_vars

(* The page opened over an entry that this version of the program did not  *)
(* write: an older version, an edited or a damaged entry.  A stored shift   *)
(* is shift-shaped (an object with id, date, instants and patrols); its     *)
(* counters, notes and notesLocked are any of the documents below, or       *)
(* missing (JUndefined).  The run loads the entry and works the counters;  *)
(* `call` is recorded as for scope "all".                                   *)
StoredCounterDocs == { JNum(0 - 1), JNum(1), JStr(<<"1">>), JUndefined }

StoredNotesDocs ==
    { JUndefined, JStr(<<"a">>),
      JArr(<< JsonOfNote([id |-> 1, timestamp |-> 1, text |-> <<"a">>]) >>) }

StoredLockDocs == { JUndefined, JBool(FALSE), JNum(1) }

StoredShiftDoc(endTime, engagements, streetDrinkers, asbIncidents, notes, notesLocked) ==
    LET all == [id |-> JStr(1),
                date |-> JStr(0),
                startTime |-> JStr(1),
                endTime |-> JsonOfInstant(endTime),
                engagements |-> engagements,
                streetDrinkers |-> streetDrinkers,
                asbIncidents |-> asbIncidents,
                notes |-> notes,
                notesLocked |-> notesLocked,
                patrols |-> JsonOfShift(NewShift(1)).v.patrols]
    IN  JObj([ k \in { k \in DOMAIN all : all[k] # JUndefined } |-> all[k] ])

StoredShiftDocs(endTime) ==
    { StoredShiftDoc(endTime, e, sd, asb, n, l) :
        e \in StoredCounterDocs, sd \in StoredCounterDocs, asb \in StoredCounterDocs,
        n \in StoredNotesDocs, l \in StoredLockDocs }

\* a slot that holds no shift, and one malformed shift to stand in a slot
\* while the other slot ranges over every stored shift
StoredPlainDocs(endTime) ==
    { JNull, JUndefined,
      StoredShiftDoc(endTime, JNum(0 - 1), JStr(<<"1">>), JUndefined, JUndefined, JNum(1)) }

StoredDoc(current, lastCompleted) ==
    LET all == [currentShift |-> current, lastCompletedShift |-> lastCompleted]
    IN  JObj([ k \in { k \in DOMAIN all : all[k] # JUndefined } |-> all[k] ])

StoredBlobs ==
    { Unparsable, JNull, JNum(1), JArr(<<>>) }
      \cup { StoredDoc(c, l) : c \in StoredShiftDocs(NoTime), l \in StoredPlainDocs(1) }
      \cup { StoredDoc(c, l) : c \in StoredPlainDocs(NoTime), l \in StoredShiftDocs(1) }

InitStored ==
    /\ state = InitialState
    /\ storage \in StoredBlobs
    /\ clock = 1
    /\ storageFaulty = FALSE
    /\ raised = FALSE
    /\ notesListEl = {}
    /\ scope = "stored"
    /\ budget = 0
    /\ call = [op |-> "init", arg |-> 0, changed |-> FALSE]

NextStored ==
    \/ Step({"stored"}, "loadState", 0, Reload)
    \/ Step({"stored"}, "incrementEngagements", 0, incrementEngagements)
    \/ Step({"stored"}, "decrementEngagements", 0, decrementEngagements)
    \/ Step({"stored"}, "incrementStreetDrinkers", 0, incrementStreetDrinkers)
    \/ Step({"stored"}, "decrementStreetDrinkers", 0, decrementStreetDrinkers)
    \/ Step({"stored"}, "incrementAsbIncidents", 0, incrementAsbIncidents)
    \/ Step({"stored"}, "decrementAsbIncidents", 0, decrementAsbIncidents)

SpecStored == InitStored /\ [][NextStored]_vars

(* The page over a localStorage whose calls may throw (storage disabled,   *)
(* quota exceeded): each getItem, setItem and removeItem returns or throws *)
(* independently of the others.                                            *)
InitFaulty ==
    /\ state = InitialState
    /\ storage = NoBlob
    /\ clock = 1
    /\ storageFaulty = TRUE
    /\ raised = FALSE
    /\ notesListEl = {}
    /\ scope = "faulty"
    /\ budget = 0
    /\ call = [op |-> "init", arg |-> 0, changed |-> FALSE]

NextFaulty ==
    \/ Step({"faulty"}, "startShift", 0, startShift)
    \/ Step({"faulty"}, "endShift", 0, endShift)
    \/ \E confirmed \in BOOLEAN :
          Step({"faulty"}, "resetAllData", IF confirmed THEN 1 ELSE 0, resetAllData(confirmed))
    \/ Step({"faulty"}, "loadState", 0, Reload)
    \/ Step({"faulty"}, "tick", 0, Tick)
    \/ Step({"faulty"}, "incrementEngagements", 0, incrementEngagements)
    \/ Step({"faulty"}, "decrementEngagements", 0, decrementEngagements)

SpecFaulty == InitFaulty /\ [][NextFaulty]_vars

----------------------------------------------------------------------------
(* Patrol states (spec section 4.4; renderPatrols tells them apart the same way) *)

PatrolPending(p) == ~Truthy(p.startTime) /\ ~Truthy(p.endTime)
PatrolActive(p) == Truthy(p.startTime) /\ ~Truthy(p.endTime)
PatrolCompleted(p) == Truthy(p.startTime) /\ Truthy(p.endTime)

ActivePatrols(shift) == { i \in DOMAIN shift.patrols : PatrolActive(shift.patrols[i]) }

ShiftActive(shift) == shift # NoShift /\ ~Truthy(shift.endTime)

\* the handler `op` ran last, as a no-op / with an effect
RanAsNoOp(op, arg) == call.op = op /\ call.arg = arg /\ ~call.changed
RanWithEffect(op, arg) == call.op = op /\ call.arg = arg /\ call.changed

----------------------------------------------------------------------------
(* C1: in every reachable state at most one of the five patrols of the     *)
(* current shift is ACTIVE (startTime set, endTime absent).                *)
C1_AtMostOneActive ==
    cur # NoShift =>
        /\ Len(cur.patrols) = NumPatrols
        /\ Cardinality(ActivePatrols(cur)) <= 1

\* startPatrol was refused for the pending third patrol while the second is
\* the one ACTIVE patrol
C1_Witness ==
    /\ RanAsNoOp("startPatrol", 2)
    /\ cur # NoShift
    /\ ActivePatrols(cur) = {2}
    /\ PatrolPending(cur.patrols[3])

(* C2: a patrol at position i > 1 goes from PENDING to ACTIVE in a step    *)
(* only if, before the step, the patrol at position i - 1 of the same      *)
(* shift has its endTime set.                                              *)
C2_StartsInOrder ==
    [][\A i \in 2 .. NumPatrols :
          ( /\ cur # NoShift
            /\ state'.currentShift # NoShift
            /\ state'.currentShift.id = cur.id
            /\ PatrolPending(cur.patrols[i])
            /\ PatrolActive(state'.currentShift.patrols[i]) )
          => Truthy(cur.patrols[i - 1].endTime)]_vars

\* the second patrol was started, after the first was completed
C2_Witness ==
    /\ RanWithEffect("startPatrol", 1)
    /\ cur # NoShift
    /\ PatrolActive(cur.patrols[2])
    /\ PatrolCompleted(cur.patrols[1])

(* C3: endShift on an active shift leaves currentShift absent and          *)
(* lastCompletedShift equal to the shift that was current, with endTime =  *)
(* now; a patrol that was ACTIVE gets endTime = that same instant, every   *)
(* PENDING or COMPLETED patrol is unchanged.                               *)
C3_EndShiftArchives ==
    [][(endShift /\ ShiftActive(cur)) =>
          /\ state'.currentShift = NoShift
          /\ state'.lastCompletedShift # NoShift
          /\ LET was == cur
                 last == state'.lastCompletedShift
             IN  /\ last.id = was.id
                 /\ last.date = was.date
                 /\ last.startTime = was.startTime
                 /\ last.endTime = clock
                 /\ last.engagements = was.engagements
                 /\ last.streetDrinkers = was.streetDrinkers
                 /\ last.asbIncidents = was.asbIncidents
                 /\ last.notes = was.notes
                 /\ last.notesLocked = was.notesLocked
                 /\ DOMAIN last.patrols = DOMAIN was.patrols
                 /\ \A i \in DOMAIN was.patrols :
                       IF PatrolActive(was.patrols[i])
                       THEN last.patrols[i] = [was.patrols[i] EXCEPT !.endTime = clock]
                       ELSE last.patrols[i] = was.patrols[i]]_vars

\* endShift ran at a later tick than the start of the first patrol, which
\* it closed; the second patrol was never started
C3_Witness ==
    /\ RanWithEffect("endShift", 0)
    /\ state.currentShift = NoShift
    /\ state.lastCompletedShift # NoShift
    /\ LET last == state.lastCompletedShift
       IN  /\ last.endTime = clock
           /\ last.patrols[1].startTime # NoTime
           /\ last.patrols[1].startTime < last.patrols[1].endTime
           /\ last.patrols[1].endTime = last.endTime
           /\ PatrolPending(last.patrols[2])

----------------------------------------------------------------------------
CounterNames == {"engagements", "streetDrinkers", "asbIncidents"}

\* the increment and the decrement handler of a counter
Increment(name) ==
    CASE name = "engagements" -> incrementEngagements
      [] name = "streetDrinkers" -> incrementStreetDrinkers
      [] name = "asbIncidents" -> incrementAsbIncidents

Decrement(name) ==
    CASE name = "engagements" -> decrementEngagements
      [] name = "streetDrinkers" -> decrementStreetDrinkers
      [] name = "asbIncidents" -> decrementAsbIncidents

(* C4: each stored counter of the current shift is an integer >= 0 in      *)
(* every reachable state, and a decrement of a counter that is 0 leaves    *)
(* the state and the persisted blob unchanged.                             *)
C4_CountersNonNegative ==
    /\ [](cur # NoShift => \A name \in CounterNames : cur[name] \in Nat)
    /\ [][\A name \in CounterNames :
             (cur # NoShift /\ cur[name] = 0 /\ ~UNCHANGED <<state, storage>>)
             => ~Decrement(name)]_vars

\* decrementStreetDrinkers ran as a no-op on a shift whose streetDrinkers
\* is 0 while another counter is not
C4_Witness ==
    /\ RanAsNoOp("decrementStreetDrinkers", 0)
    /\ ShiftActive(cur)
    /\ cur.streetDrinkers = 0
    /\ cur.engagements > 0

(* C5: after endShift and before the next startShift (no current shift, a  *)
(* last completed shift), an increment or decrement of any counter leaves  *)
(* currentShift and lastCompletedShift as they were and writes nothing.    *)
C5_CountersInertAfterEnd ==
    [][( /\ ~ShiftActive(cur)
         /\ state.lastCompletedShift # NoShift
         /\ ~UNCHANGED <<state, storage>> )
       => \A name \in CounterNames : ~(Increment(name) \/ Decrement(name))]_vars

\* incrementEngagements ran as a no-op after a shift with engagements > 0 ended
C5_Witness ==
    /\ RanAsNoOp("incrementEngagements", 0)
    /\ state.currentShift = NoShift
    /\ state.lastCompletedShift # NoShift
    /\ state.lastCompletedShift.engagements > 0

(* C6: startShift while a shift is active leaves the entire state (and the *)
(* blob) unchanged: the shift keeps its id, startTime, counters, notes and *)
(* patrols.                                                                *)
C6_StartShiftIdempotent ==
    [][(startShift /\ ShiftActive(cur)) => UNCHANGED <<state, storage>>]_vars

\* startShift ran as a no-op, at a later tick, on a shift with a running patrol
C6_Witness ==
    /\ RanAsNoOp("startShift", 0)
    /\ ShiftActive(cur)
    /\ cur.startTime < clock
    /\ PatrolActive(cur.patrols[1])

(* C7: startShift with no active current shift creates a shift with id =   *)
(* startTime = now, endTime absent, the three counters 0, no notes,        *)
(* notesLocked, and exactly five PENDING patrols with indices 1..5 in      *)
(* order; lastCompletedShift is left unchanged.                            *)
C7_StartShiftCreates ==
    [][(startShift /\ ~ShiftActive(cur)) =>
          /\ state'.lastCompletedShift = state.lastCompletedShift
          /\ state'.currentShift # NoShift
          /\ LET new == state'.currentShift
             IN  /\ new.id = clock
                 /\ new.startTime = clock
                 /\ new.endTime = NoTime
                 /\ new.engagements = 0
                 /\ new.streetDrinkers = 0
                 /\ new.asbIncidents = 0
                 /\ new.notes = <<>>
                 /\ new.notesLocked = TRUE
                 /\ Len(new.patrols) = 5
                 /\ \A i \in 1 .. 5 :
                       /\ new.patrols[i].index = i
                       /\ PatrolPending(new.patrols[i])]_vars

\* a second shift was just created while the previous one, with a counter
\* above 0, is kept as the last completed shift
C7_Witness ==
    /\ RanWithEffect("startShift", 0)
    /\ ShiftActive(cur)
    /\ cur.id = clock
    /\ state.lastCompletedShift # NoShift
    /\ state.lastCompletedShift.engagements > 0

(* C8: resetAllData with both slots absent changes neither the state nor   *)
(* the blob; with at least one slot present and the confirmation granted,  *)
(* both slots become absent.                                               *)
C8_ResetAllData ==
    [][\A confirmed \in BOOLEAN :
          resetAllData(confirmed) =>
             IF state.currentShift = NoShift /\ state.lastCompletedShift = NoShift
             THEN UNCHANGED <<state, storage>>
             ELSE confirmed =>
                     /\ state'.currentShift = NoShift
                     /\ state'.lastCompletedShift = NoShift]_vars

\* a confirmed reset just cleared a state that held data
C8_Witness ==
    /\ RanWithEffect("resetAllData", 1)
    /\ state = InitialState

(* C9: round trip.  In every reachable state, saving the state and then   *)
(* loading the blob into a fresh state object (storage not failing) gives  *)
(* back the state that was saved: both slots, ids, instants, counters,     *)
(* notes in order, notesLocked and every patrol's startTime / endTime.     *)
C9_SaveLoadRoundTrip ==
    loadState(InitialState, saveState(state, NoBlob, TRUE), TRUE) = state

\* the page was reloaded from the blob of a state whose current shift has
\* a running patrol and notes that are unlocked and not empty
C9_Witness ==
    /\ call.op = "loadState"
    /\ ShiftActive(cur)
    /\ PatrolActive(cur.patrols[1])
    /\ cur.notes # <<>>
    /\ ~cur.notesLocked

(* C10: an operation attempted in a lifecycle state where it is invalid    *)
(* leaves the state and the blob unchanged and raises no error:            *)
(* startShift while a shift is active; endShift with no current shift;     *)
(* startPatrol(i) with no active shift, while a patrol is ACTIVE, when the *)
(* previous patrol is not COMPLETED, or when patrol i is not PENDING;      *)
(* endPatrol(i) with no active shift or when patrol i is not ACTIVE;       *)
(* decrement of a counter at 0.                                            *)
InvalidStartPatrol(index) ==
    \/ ~ShiftActive(cur)
    \/ ActivePatrols(cur) # {}
    \/ index - 1 \in 0 .. (NumPatrols - 1) /\ ~PatrolCompleted(cur.patrols[index])
    \/ index \in 0 .. (NumPatrols - 1) /\ ~PatrolPending(cur.patrols[index + 1])

InvalidEndPatrol(index) ==
    \/ ~ShiftActive(cur)
    \/ index \in 0 .. (NumPatrols - 1) /\ ~PatrolActive(cur.patrols[index + 1])

InvalidCall ==
    \/ ShiftActive(cur) /\ startShift
    \/ cur = NoShift /\ endShift
    \/ \E index \in PatrolIndexInputs : InvalidStartPatrol(index) /\ startPatrol(index)
    \/ \E index \in PatrolIndexInputs : InvalidEndPatrol(index) /\ endPatrol(index)
    \/ \E name \in CounterNames : (cur # NoShift => cur[name] = 0) /\ Decrement(name)

\* Stated in contrapositive: a step that changes the state or the blob,
\* or raises, is not an invalid call.
C10_InvalidOperationsAreNoOps ==
    [][(~UNCHANGED <<state, storage>> \/ raised') => ~InvalidCall]_vars

\* startPatrol was refused for the third patrol while the first is
\* COMPLETED, the second PENDING and none ACTIVE
C10_Witness ==
    /\ RanAsNoOp("startPatrol", 2)
    /\ ~raised
    /\ ShiftActive(cur)
    /\ ActivePatrols(cur) = {}
    /\ PatrolCompleted(cur.patrols[1])
    /\ PatrolPending(cur.patrols[2])
    /\ PatrolPending(cur.patrols[3])

----------------------------------------------------------------------------
last == state.lastCompletedShift

\* one of the handlers that work on the current shift only
CurrentShiftHandler ==
    \/ startShift
    \/ \E index \in PatrolIndexInputs : startPatrol(index) \/ endPatrol(index)
    \/ \E name \in CounterNames : Increment(name) \/ Decrement(name)
    \/ \E value \in NoteTextInputs : addNote(value)
    \/ \E id \in NoteIdInputs, newText \in EditTextInputs : updateNoteText(id, newText)
    \/ \E id \in NoteIdInputs : deleteNote(id)
    \/ toggleNotesLock

(* C11: lastCompletedShift is a frozen snapshot.  No startShift,           *)
(* startPatrol, endPatrol, counter increment / decrement, addNote,         *)
(* updateNoteText, deleteNote or toggleNotesLock step changes it; a step   *)
(* that replaces it is an endShift, which puts the just-ended shift there; *)
(* a step that makes it absent is a confirmed resetAllData.                *)
C11_LastCompletedFrozen ==
    [][ /\ last' # last => ~CurrentShiftHandler
        /\ (last' # last /\ last' # NoShift) =>
              /\ endShift
              /\ ShiftActive(cur)
              /\ last'.id = cur.id
              /\ last'.startTime = cur.startTime
              /\ last'.endTime = clock
              /\ last'.notes = cur.notes
        /\ (last # NoShift /\ last' = NoShift) => resetAllData(TRUE) ]_vars

\* a note was added to the shift that followed a completed shift, whose
\* notes are still empty
C11_Witness ==
    /\ RanWithEffect("addNote", 0)
    /\ last # NoShift
    /\ last.notes = <<>>
    /\ ShiftActive(cur)
    /\ cur.notes # <<>>

----------------------------------------------------------------------------
\* the moves of one patrol the lifecycle PENDING -> ACTIVE -> COMPLETED allows
PatrolMoves(p, q) ==
    \/ q = p
    \/ PatrolPending(p) /\ PatrolActive(q) /\ q.index = p.index
    \/ /\ PatrolActive(p) /\ PatrolCompleted(q)
       /\ q.index = p.index /\ q.startTime = p.startTime

\* the shift of the current slot after a step: still current, or moved to
\* the last-completed slot by the step
ShiftAfterStep ==
    IF state'.currentShift # NoShift THEN state'.currentShift
    ELSE state'.lastCompletedShift

(* C12: each patrol only ever moves PENDING -> ACTIVE -> COMPLETED within  *)
(* its shift.  In every step a patrol of the current shift stays as it is, *)
(* goes from PENDING to ACTIVE, or goes from ACTIVE to COMPLETED keeping   *)
(* its startTime; so a startTime or endTime that is set is never changed   *)
(* or cleared, and a COMPLETED patrol is never started again.              *)
C12_PatrolLifecycle ==
    [][(cur # NoShift /\ ShiftAfterStep # NoShift) =>
          /\ DOMAIN ShiftAfterStep.patrols = DOMAIN cur.patrols
          /\ \A i \in DOMAIN cur.patrols :
                /\ PatrolMoves(cur.patrols[i], ShiftAfterStep.patrols[i])
                /\ Truthy(cur.patrols[i].startTime) =>
                      ShiftAfterStep.patrols[i].startTime = cur.patrols[i].startTime
                /\ Truthy(cur.patrols[i].endTime) =>
                      ShiftAfterStep.patrols[i].endTime = cur.patrols[i].endTime]_vars

\* startPatrol was refused, at a later tick, for the first patrol, which is
\* COMPLETED
C12_Witness ==
    /\ RanAsNoOp("startPatrol", 0)
    /\ ShiftActive(cur)
    /\ PatrolCompleted(cur.patrols[1])
    /\ cur.patrols[1].endTime < clock

----------------------------------------------------------------------------
NoEndWithoutStart(shift) ==
    shift # NoShift =>
        \A i \in DOMAIN shift.patrols :
            ~Truthy(shift.patrols[i].startTime) => ~Truthy(shift.patrols[i].endTime)

(* C13: in every reachable state, every patrol of the current shift and of *)
(* the last completed shift whose startTime is absent has its endTime      *)
(* absent too.                                                             *)
C13_NoEndWithoutStart ==
    NoEndWithoutStart(cur) /\ NoEndWithoutStart(last)

\* endPatrol was refused for the second patrol, which is PENDING, while the
\* last completed shift holds a COMPLETED and a PENDING patrol
C13_Witness ==
    /\ RanAsNoOp("endPatrol", 1)
    /\ ShiftActive(cur)
    /\ PatrolPending(cur.patrols[2])
    /\ last # NoShift
    /\ PatrolCompleted(last.patrols[1])
    /\ PatrolPending(last.patrols[2])

----------------------------------------------------------------------------
NoteIds(notes) == { notes[i].id : i \in DOMAIN notes }

(* C14: addNote is allowed whatever the lock state.  With a current shift  *)
(* and a text that trims to non-empty, addNote appends exactly one note at *)
(* the end of the shift's notes: a fresh id (one that no note of the shift *)
(* has), timestamp = now, the trimmed text; notesLocked and the rest of    *)
(* the state are untouched.  With no current shift or an empty trimmed     *)
(* text it is a no-op.                                                     *)
C14_AddNoteAppendsFresh ==
    [][\A value \in NoteTextInputs :
          addNote(value) =>
             IF cur # NoShift /\ Trim(value) # <<>>
             THEN /\ state'.lastCompletedShift = last
                  /\ state'.currentShift # NoShift
                  /\ Len(state'.currentShift.notes) = Len(cur.notes) + 1
                  /\ LET new == state'.currentShift.notes[Len(cur.notes) + 1]
                     IN  /\ state'.currentShift = [cur EXCEPT !.notes = Append(cur.notes, new)]
                         /\ new.id \notin NoteIds(cur.notes)
                         /\ new.timestamp = clock
                         /\ new.text = Trim(value)
             ELSE UNCHANGED <<state, storage>>]_vars

----------------------------------------------------------------------------
DistinctIds(shift) ==
    shift # NoShift =>
        \A i, j \in DOMAIN shift.notes :
            shift.notes[i].id = shift.notes[j].id => i = j

(* C16: note ids are unique.  In every reachable state the notes of a      *)
(* shift have pairwise distinct ids, under a clock that does not decrease  *)
(* and may show the same instant to two addNote calls.                     *)
C16_NoteIdsUnique ==
    DistinctIds(cur) /\ DistinctIds(last)

----------------------------------------------------------------------------
(* C15: a note's text is mutable only while unlocked.  In no step taken    *)
(* while the current shift's notesLocked is true does an existing note of  *)
(* that shift change or disappear from the shift's notes: every note keeps *)
(* its position, id, timestamp and text.                                   *)
C15_LockedNotesImmutable ==
    [][(cur # NoShift /\ cur.notesLocked /\ ShiftAfterStep # NoShift) =>
          \A i \in DOMAIN cur.notes :
              /\ i \in DOMAIN ShiftAfterStep.notes
              /\ ShiftAfterStep.notes[i] = cur.notes[i]]_vars

\* the notes are locked and the list shows no editing controls, after a
\* note was edited while they were unlocked and another was added
C15_Witness ==
    /\ ShiftActive(cur)
    /\ cur.notesLocked
    /\ notesListEl = {}
    /\ Len(cur.notes) = 2
    /\ cur.notes[1].text = <<"b">>
    /\ cur.notes[2].text = <<"a">>

----------------------------------------------------------------------------
\* the sum of f[i] over the finite set S
RECURSIVE SumOver(_, _)
SumOver(S, f) ==
    IF S = {} THEN 0
    ELSE LET i == CHOOSE i \in S : TRUE IN f[i] + SumOver(S \ {i}, f)

TouchedPatrols(shift) ==
    { i \in DOMAIN shift.patrols :
        Truthy(shift.patrols[i].startTime) \/ Truthy(shift.patrols[i].endTime) }

TimedPatrols(shift) ==
    { i \in DOMAIN shift.patrols :
        Truthy(shift.patrols[i].startTime) /\ Truthy(shift.patrols[i].endTime) }

(* C17: for the shift in lastCompletedShift the summary lists exactly the  *)
(* patrols that have startTime or endTime set, in index order, each with   *)
(* its own duration; totalPatrolMs is the sum of endTime - startTime over  *)
(* the patrols with both instants set, and equals the sum of the listed    *)
(* durations.                                                              *)
C17_SummaryItemizesTouched ==
    last # NoShift =>
        LET rows == patrolLines(last.patrols)
            span == [ i \in DOMAIN last.patrols |->
                        last.patrols[i].endTime - last.patrols[i].startTime ]
        IN  /\ { rows[k].label : k \in DOMAIN rows } = TouchedPatrols(last)
            /\ Len(rows) = Cardinality(TouchedPatrols(last))
            /\ \A k \in DOMAIN rows : k > 1 => rows[k - 1].label < rows[k].label
            /\ \A k \in DOMAIN rows :
                   rows[k].value = getPatrolDurationMs(last.patrols[rows[k].label])
            /\ totalPatrolMs(last.patrols) = SumOver(TimedPatrols(last), span)
            /\ totalPatrolMs(last.patrols) =
                   SumOver(DOMAIN rows, [ k \in DOMAIN rows |-> rows[k].value ])

\* the completed shift has a patrol that took time, a patrol that took
\* none, and untouched patrols
C17_Witness ==
    /\ last # NoShift
    /\ TouchedPatrols(last) = {1, 2}
    /\ getPatrolDurationMs(last.patrols[1]) > 0
    /\ getPatrolDurationMs(last.patrols[2]) = 0
    /\ totalPatrolMs(last.patrols) > 0

----------------------------------------------------------------------------
Slots == {"currentShift", "lastCompletedShift"}

\* the shift loaded into a slot is the stored shift `doc`, normalised
LoadedNormalized(doc, loaded) ==
    /\ loaded # NoShift
    /\ \A name \in CounterNames :
          loaded[name] = IF JGet(doc, name).type = "number" THEN JGet(doc, name).v ELSE 0
    /\ IF JGet(doc, "notes").type = "array"
       THEN JsonOfShift(loaded).v.notes = JGet(doc, "notes")
       ELSE loaded.notes = <<>>
    /\ loaded.notesLocked =
          IF JGet(doc, "notesLocked").type = "boolean" THEN JGet(doc, "notesLocked").v
          ELSE TRUE
    /\ \A field \in {"id", "date", "startTime", "endTime", "patrols"} :
          JsonOfShift(loaded).v[field] = JGet(doc, field)

(* C18: load normalises every shift it reads, in both slots: a counter     *)
(* that is not a number becomes 0, notes that are missing or not a         *)
(* sequence become the empty sequence, notesLocked that is missing or not  *)
(* a boolean becomes true; well-formed fields are kept as stored; a slot   *)
(* that is null or missing is loaded as absent; and no error escapes load, *)
(* whatever the entry holds.                                               *)
C18_LoadNormalizes ==
    [][Reload =>
          /\ ~raised'
          /\ IF storage # NoBlob /\ storage.type = "object"
             THEN \A slot \in Slots :
                     IF JGet(storage, slot).type = "object"
                     THEN LoadedNormalized(JGet(storage, slot), state'[slot])
                     ELSE state'[slot] = NoShift
             ELSE state' = InitialState]_vars

\* the page was loaded from an entry whose current shift has a string, a
\* negative number and no value for its counters, notes that are not a
\* sequence and no notesLocked, and whose last completed shift is malformed
C18_Witness ==
    /\ call.op = "loadState"
    /\ storage.type = "object"
    /\ LET doc == JGet(storage, "currentShift")
       IN  /\ JGet(doc, "engagements").type = "string"
           /\ JGet(doc, "streetDrinkers") = JNum(0 - 1)
           /\ JGet(doc, "asbIncidents") = JUndefined
           /\ JGet(doc, "notes").type = "string"
           /\ JGet(doc, "notesLocked") = JUndefined
    /\ cur # NoShift
    /\ cur.engagements = 0 /\ cur.streetDrinkers = 0 - 1 /\ cur.asbIncidents = 0
    /\ cur.notes = <<>>
    /\ cur.notesLocked
    /\ last # NoShift
    /\ last.notesLocked

----------------------------------------------------------------------------
\* the value a counter's getter returns (the value the page shows)
GetCounter(name) ==
    CASE name = "engagements" -> getCurrentEngagements
      [] name = "streetDrinkers" -> getCurrentStreetDrinkers
      [] name = "asbIncidents" -> getCurrentAsbIncidents

(* C19: counter reads are defensive.  For any current shift, also one      *)
(* loaded from an entry whose counter is negative or not a number, the     *)
(* getter returns the stored value if it is a non-negative number and 0    *)
(* otherwise, so the value shown is never negative; on a shift whose       *)
(* counter reads 0 for that reason a decrement is a no-op and an increment *)
(* stores 1.                                                               *)
C19_DefensiveCounterReads ==
    /\ [](\A name \in CounterNames :
             /\ GetCounter(name) >= 0
             /\ GetCounter(name) =
                   IF cur # NoShift /\ cur[name] \in Nat THEN cur[name] ELSE 0)
    /\ [][\A name \in CounterNames :
             (cur # NoShift /\ cur[name] \notin Nat \ {0}) =>
                /\ Decrement(name) => UNCHANGED <<state, storage>>
                /\ Increment(name) =>
                      /\ state'.currentShift = [cur EXCEPT ![name] = 1]
                      /\ storage' = Stringify(state')]_vars

\* decrementEngagements ran as a no-op on a loaded shift whose engagements
\* is stored as -1 and reads 0
C19_Witness ==
    /\ RanAsNoOp("decrementEngagements", 0)
    /\ cur # NoShift
    /\ cur.engagements = 0 - 1
    /\ getCurrentEngagements = 0
    /\ JGet(JGet(storage, "currentShift"), "engagements") = JNum(0 - 1)

----------------------------------------------------------------------------
(* C20: persistence stays in sync with memory.  With storage not failing,  *)
(* after every operation loading the persisted entry into a fresh default  *)
(* state gives exactly the state in memory, and the entry is absent only   *)
(* when both slots are absent.                                             *)
C20_PersistenceInSync ==
    /\ loadState(InitialState, storage, TRUE) = state
    /\ storage = NoBlob => (cur = NoShift /\ last = NoShift)

\* updateNoteText just rewrote the first note of the current shift, and
\* the entry holds the shift as it is in memory
C20_Witness ==
    /\ RanWithEffect("updateNoteText", 1)
    /\ ~storageFaulty
    /\ storage # NoBlob
    /\ ShiftActive(cur)
    /\ cur.notes # <<>>
    /\ cur.notes[1].text = <<"b">>
    /\ JGet(storage, "currentShift") = JsonOfShift(cur)
    /\ JGet(JGet(storage, "currentShift"), "notes").v[1] = JsonOfNote(cur.notes[1])

----------------------------------------------------------------------------
\* index arguments that address none of the five patrols
OutOfRangeInputs == { index \in PatrolIndexInputs : index < 0 \/ index > NumPatrols - 1 }

(* C21: startPatrol(index) and endPatrol(index) with an index that does    *)
(* not address one of the five patrols (index < 0 or index > 4) is a       *)
(* silent no-op in every reachable state: the state and the entry are      *)
(* unchanged and no exception is raised.                                   *)
C21_OutOfRangeIndexIsNoOp ==
    [][\A index \in OutOfRangeInputs :
          (startPatrol(index) \/ endPatrol(index)) =>
             (UNCHANGED <<state, storage>> /\ ~raised')]_vars

----------------------------------------------------------------------------
\* the conditions under which the spec lets patrol `index` (0-based) start
MayStartPatrol(index) ==
    /\ ShiftActive(cur)
    /\ PatrolPending(cur.patrols[index + 1])
    /\ ActivePatrols(cur) = {}
    /\ index = 0 \/ PatrolCompleted(cur.patrols[index])

(* C22: startPatrol(index), for index in 0..4, succeeds exactly when a     *)
(* current shift exists and is not ended, the patrol at that position is   *)
(* PENDING, no patrol of the shift is ACTIVE, and index = 0 or the patrol  *)
(* at index - 1 is COMPLETED.  On success it sets that patrol's startTime  *)
(* to now and nothing else in the state; otherwise it changes nothing.     *)
\* Stated by cases on whether the step left the state and the blob as
\* they were: such a step is not a startPatrol that raised or that was
\* due to succeed; any other startPatrol step was due to succeed, did not
\* raise, and set that startTime only.
C22_StartPatrolExactly ==
    [][IF UNCHANGED <<state, storage>>
       THEN \A index \in 0 .. (NumPatrols - 1) :
               (raised' \/ MayStartPatrol(index)) => ~startPatrol(index)
       ELSE \A index \in 0 .. (NumPatrols - 1) :
               startPatrol(index) =>
                  /\ ~raised'
                  /\ MayStartPatrol(index)
                  /\ state' = [state EXCEPT
                        !.currentShift.patrols[index + 1].startTime = clock]
                  /\ state' # state]_vars

\* with the first patrol COMPLETED, the second was just started at the
\* current instant and saved; the third is PENDING
C22_Witness ==
    /\ RanWithEffect("startPatrol", 1)
    /\ ShiftActive(cur)
    /\ PatrolCompleted(cur.patrols[1])
    /\ cur.patrols[2] = [index |-> 2, startTime |-> clock, endTime |-> NoTime]
    /\ PatrolPending(cur.patrols[3])
    /\ storage = Stringify(state)

----------------------------------------------------------------------------
(* C23: endPatrol(index) changes the state exactly when a current shift    *)
(* exists, is not ended, and the patrol at that position is ACTIVE.  It    *)
(* then sets that patrol's endTime to now and nothing else in the state,   *)
(* after which no patrol of the shift is ACTIVE; otherwise it changes      *)
(* nothing.                                                                *)
\* Stated by cases on whether the step left the state and the blob as
\* they were: such a step is not an endPatrol of an ACTIVE patrol; any
\* other endPatrol step had an ACTIVE patrol at that position and set its
\* endTime only.
C23_EndPatrolExactly ==
    [][IF UNCHANGED <<state, storage>>
       THEN \A index \in PatrolIndexInputs :
               ( /\ ShiftActive(cur)
                 /\ index \in 0 .. (NumPatrols - 1)
                 /\ PatrolActive(cur.patrols[index + 1]) ) => ~endPatrol(index)
       ELSE \A index \in PatrolIndexInputs :
               endPatrol(index) =>
                  /\ ShiftActive(cur)
                  /\ index \in 0 .. (NumPatrols - 1)
                  /\ PatrolActive(cur.patrols[index + 1])
                  /\ state' = [state EXCEPT
                        !.currentShift.patrols[index + 1].endTime = clock]
                  /\ state' # state
                  /\ ActivePatrols(state'.currentShift) = {}]_vars

\* the first patrol was just ended, one tick after it started, and no
\* patrol is ACTIVE
C23_Witness ==
    /\ RanWithEffect("endPatrol", 0)
    /\ ShiftActive(cur)
    /\ cur.patrols[1].endTime = clock
    /\ cur.patrols[1].startTime # NoTime
    /\ cur.patrols[1].startTime < clock
    /\ ActivePatrols(cur) = {}

----------------------------------------------------------------------------
\* the notes `after` are the notes `before` with the one at position k removed
RemovedOne(before, after, k) ==
    /\ Len(after) = Len(before) - 1
    /\ \A i \in 1 .. (k - 1) : after[i] = before[i]
    /\ \A i \in k .. Len(after) : after[i] = before[i + 1]

ChronologicalNotes(shift) ==
    shift # NoShift =>
        \A i, j \in DOMAIN shift.notes :
            i < j => shift.notes[i].timestamp <= shift.notes[j].timestamp

(* C24: deleteNote(id) with a current shift removes exactly one note, the  *)
(* first whose id matches, and leaves every other note, its text and the   *)
(* order of the notes unchanged; with no matching note or no current shift *)
(* it is a no-op.  The notes of a shift are always in non-decreasing       *)
(* order of their creation timestamps.                                     *)
\* The step part is stated by cases on whether the step left the state
\* and the blob as they were: such a step is not a deleteNote of an id
\* that is present; any other deleteNote step removed the first match.
C24_DeleteNoteRemovesOne ==
    /\ [](ChronologicalNotes(cur) /\ ChronologicalNotes(last))
    /\ [][IF UNCHANGED <<state, storage>>
          THEN \A id \in NoteIdInputs :
                  (cur # NoShift /\ id \in NoteIds(cur.notes)) => ~deleteNote(id)
          ELSE \A id \in NoteIdInputs :
                  deleteNote(id) =>
                     /\ cur # NoShift
                     /\ id \in NoteIds(cur.notes)
                     /\ \E k \in DOMAIN cur.notes :
                           /\ cur.notes[k].id = id
                           /\ \A i \in 1 .. (k - 1) : cur.notes[i].id # id
                           /\ state'.currentShift # NoShift
                           /\ RemovedOne(cur.notes, state'.currentShift.notes, k)
                           /\ state' = [state EXCEPT
                                  !.currentShift.notes = state'.currentShift.notes]]_vars

\* deleteNote just removed one of two notes that have the same id
C24_Witness ==
    /\ RanWithEffect("deleteNote", 1)
    /\ cur # NoShift
    /\ Len(cur.notes) = 1
    /\ cur.notes[1].id = 1

----------------------------------------------------------------------------
HasAnyData == cur # NoShift \/ last # NoShift

(* C25: after a confirmed resetAllData the persisted store no longer holds *)
(* the old data: if removing the entry succeeds the key is absent, if it   *)
(* fails the now-empty state is written instead, and in either case a      *)
(* subsequent load yields currentShift and lastCompletedShift both absent. *)
(* Stated for a store that holds an entry when resetAllData is called.     *)
C25_ResetClearsStore ==
    [][\A removeOk, setOk \in BOOLEAN :
          (resetAllDataWith(TRUE, removeOk, setOk) /\ HasAnyData /\ storage # NoBlob) =>
             /\ removeOk => storage' = NoBlob
             /\ ~removeOk => storage' = Stringify(InitialState)
             /\ loadState(InitialState, storage', TRUE) = InitialState]_vars

(* C25, amended: after a confirmed resetAllData both slots are absent in   *)
(* memory.  If removing the entry succeeds the key is absent; if it fails  *)
(* and the fallback write succeeds the entry holds the empty state; in     *)
(* both cases a subsequent load yields both slots absent.  If removing and *)
(* the fallback write both fail, the entry is left as it was.              *)
C25_ResetClearsStoreWhenWritable ==
    [][\A removeOk, setOk \in BOOLEAN :
          (resetAllDataWith(TRUE, removeOk, setOk) /\ HasAnyData) =>
             /\ state' = InitialState
             /\ removeOk => storage' = NoBlob
             /\ (~removeOk /\ setOk) => storage' = Stringify(InitialState)
             /\ (removeOk \/ setOk) => loadState(InitialState, storage', TRUE) = InitialState
             /\ (~removeOk /\ ~setOk) => storage' = storage]_vars

\* a confirmed reset whose removeItem threw has written the empty state
C25_Witness ==
    /\ storageFaulty
    /\ state = InitialState
    /\ storage = Stringify(InitialState)

----------------------------------------------------------------------------
(* The enabled flags render() computes for the controls (enabled is        *)
(* `!disabled`; a control that is not created is not enabled).             *)

\* renderShiftSection: startShiftBtn, endShiftBtn
startShiftBtnEnabled ==
    IF cur = NoShift THEN TRUE
    ELSE ~(cur # NoShift /\ ~Truthy(cur.endTime))

endShiftBtnEnabled ==
    IF cur = NoShift THEN FALSE
    ELSE ~(Truthy(cur.endTime) \/ cur = NoShift)

\* renderShiftSection: the plus and the minus button of a counter
PlusBtnEnabled(name) ==
    IF cur = NoShift THEN FALSE
    ELSE ~Truthy(cur.endTime)

\* a minus button that stays enabled at 0
MinusBtnEnabled_IgnoresZero(name) ==
    IF cur = NoShift THEN FALSE
    ELSE ~Truthy(cur.endTime)

MinusBtnEnabled(name) ==
    IF cur = NoShift THEN FALSE
    ELSE ~(Truthy(cur.endTime) \/ GetCounter(name) <= 0)

\* renderPatrols: the button of the card at position idx (0-based) is a
\* `Start patrol`, an `End patrol` or a disabled `Completed` button
StartPatrolBtnEnabled(idx) ==
    IF cur = NoShift THEN FALSE
    ELSE LET patrol == cur.patrols[idx + 1]
             previousDone == idx = 0 \/ Truthy(cur.patrols[idx].endTime)
         IN  IF ~Truthy(patrol.startTime) /\ ~Truthy(patrol.endTime)
             THEN /\ ~Truthy(cur.endTime)
                  /\ previousDone
                  /\ ~\E i \in DOMAIN cur.patrols :
                         Truthy(cur.patrols[i].startTime) /\ ~Truthy(cur.patrols[i].endTime)
             ELSE FALSE

EndPatrolBtnEnabled(idx) ==
    IF cur = NoShift THEN FALSE
    ELSE LET patrol == cur.patrols[idx + 1]
         IN  IF Truthy(patrol.startTime) /\ ~Truthy(patrol.endTime)
             THEN ~Truthy(cur.endTime)
             ELSE FALSE

\* the step changed the state object
StateChanged == state' # state

\* the flags of the controls equal the guards of their handlers
FlagsMatchGuards ==
    /\ startShiftBtnEnabled <=> ~ShiftActive(cur)
    /\ endShiftBtnEnabled <=> ~NoActiveShift
    /\ \A idx \in 0 .. (NumPatrols - 1) :
          /\ StartPatrolBtnEnabled(idx) <=> StartPatrolOutcome(idx) = "start"
          /\ EndPatrolBtnEnabled(idx) <=> EndPatrolProceeds(idx)
    /\ \A name \in CounterNames :
          /\ PlusBtnEnabled(name) <=> ~NoActiveShift
          /\ MinusBtnEnabled(name) <=> (~NoActiveShift /\ GetCounter(name) > 0)

\* the handler name of a counter: kind is "increment" or "decrement"
HandlerOf(kind, name) ==
    CASE name = "engagements" -> kind \o "Engagements"
      [] name = "streetDrinkers" -> kind \o "StreetDrinkers"
      [] name = "asbIncidents" -> kind \o "AsbIncidents"

\* a handler that has just run without changing the state (the flags are
\* those it ran with) has the flag of its control unset
IdleCallsHadFlagUnset ==
    (call.op # "init" /\ ~call.changed) =>
        /\ RanAsNoOp("startShift", 0) => ~startShiftBtnEnabled
        /\ RanAsNoOp("endShift", 0) => ~endShiftBtnEnabled
        /\ \A idx \in 0 .. (NumPatrols - 1) :
              /\ RanAsNoOp("startPatrol", idx) => ~StartPatrolBtnEnabled(idx)
              /\ RanAsNoOp("endPatrol", idx) => ~EndPatrolBtnEnabled(idx)
        /\ \A name \in CounterNames :
              /\ RanAsNoOp(HandlerOf("increment", name), 0) => ~PlusBtnEnabled(name)
              /\ RanAsNoOp(HandlerOf("decrement", name), 0) => ~MinusBtnEnabled(name)

(* C26: the enabled flags computed for the controls agree with the core    *)
(* guards in every reachable state: Start patrol of position idx is        *)
(* enabled iff startPatrol(idx) would change the state, End patrol iff     *)
(* endPatrol(idx) would, Start Shift iff startShift would create a shift,  *)
(* End Shift iff endShift would end one, a counter's minus iff its         *)
(* decrement would change the counter, its plus iff its increment would.   *)
\* In every state the flags equal the guards; a handler that ran without
\* changing the state had its flag unset; and no step that changes the
\* state is a step of a handler whose flag was unset.
C26_ControlsAgreeWithGuards ==
    /\ [](FlagsMatchGuards /\ IdleCallsHadFlagUnset)
    /\ [][StateChanged =>
            /\ ~startShiftBtnEnabled => ~startShift
            /\ ~endShiftBtnEnabled => ~endShift
            /\ \A idx \in 0 .. (NumPatrols - 1) :
                  /\ ~StartPatrolBtnEnabled(idx) => ~startPatrol(idx)
                  /\ ~EndPatrolBtnEnabled(idx) => ~endPatrol(idx)
            /\ \A name \in CounterNames :
                  /\ ~PlusBtnEnabled(name) => ~Increment(name)
                  /\ ~MinusBtnEnabled(name) => ~Decrement(name)]_vars

\* decrementStreetDrinkers ran as a no-op with its minus button disabled,
\* while the minus button of engagements, End patrol of the first patrol
\* and End Shift are enabled and Start patrol of the second is not
C26_Witness ==
    /\ RanAsNoOp("decrementStreetDrinkers", 0)
    /\ ~MinusBtnEnabled("streetDrinkers")
    /\ MinusBtnEnabled("engagements")
    /\ PlusBtnEnabled("streetDrinkers")
    /\ EndPatrolBtnEnabled(0)
    /\ ~StartPatrolBtnEnabled(1)
    /\ endShiftBtnEnabled
    /\ ~startShiftBtnEnabled

----------------------------------------------------------------------------
\* renderSummary: shiftDurationMs of the completed shift
shiftDurationMs(shift) ==
    MsOfInstant(shift.endTime)
      - MsOfInstant(IF Truthy(shift.startTime) THEN shift.startTime ELSE shift.endTime)

\* the instants of a shift in the order startTime, patrol 1 startTime,
\* patrol 1 endTime, patrol 2 startTime, ...
Timeline(shift) ==
    <<shift.startTime>> \o
    [ k \in 1 .. (2 * NumPatrols) |->
        IF k % 2 = 1 THEN shift.patrols[(k + 1) \div 2].startTime
        ELSE shift.patrols[k \div 2].endTime ]

Ordered(shift) ==
    LET line == Timeline(shift)
    IN  /\ \A i, j \in DOMAIN line :
              (i < j /\ Truthy(line[i]) /\ Truthy(line[j])) => line[i] <= line[j]
        /\ Truthy(shift.endTime) =>
              \A i \in DOMAIN shift.patrols :
                  Truthy(shift.patrols[i].endTime) =>
                      shift.patrols[i].endTime <= shift.endTime
        /\ \A i \in DOMAIN shift.patrols : getPatrolDurationMs(shift.patrols[i]) >= 0

(* C27: under a non-decreasing clock the timestamps are ordered in every   *)
(* reachable state: shift.startTime <= patrol 1 startTime <= patrol 1      *)
(* endTime <= patrol 2 startTime <= ... over the instants that are set,    *)
(* and in a completed shift every patrol endTime <= shift.endTime; so      *)
(* every patrol duration and the shift duration are >= 0, and              *)
(* totalPatrolMs <= shiftDurationMs in the summary.                        *)
C27_TimestampsOrdered ==
    /\ cur # NoShift => Ordered(cur)
    /\ last # NoShift =>
          /\ Ordered(last)
          /\ shiftDurationMs(last) >= 0
          /\ totalPatrolMs(last.patrols) <= shiftDurationMs(last)

\* a completed shift whose two patrols follow each other without a pause
\* and fill the whole shift
C27_Witness ==
    /\ last # NoShift
    /\ PatrolCompleted(last.patrols[1])
    /\ PatrolCompleted(last.patrols[2])
    /\ last.patrols[1].endTime = last.patrols[2].startTime
    /\ shiftDurationMs(last) > 0
    /\ totalPatrolMs(last.patrols) = shiftDurationMs(last)

----------------------------------------------------------------------------
\* patrols 1..k of the shift were started, all but possibly the k-th are
\* completed, and the patrols after the k-th are pending
UsedPrefix(shift, k) ==
    /\ \A i \in 1 .. k : Truthy(shift.patrols[i].startTime)
    /\ \A i \in (k + 1) .. NumPatrols : PatrolPending(shift.patrols[i])
    /\ \A i \in 1 .. (k - 1) : PatrolCompleted(shift.patrols[i])

(* C28: the patrols are used as a prefix with no gaps: in every reachable  *)
(* state every shift has a k in 0..5 such that patrols 1..k have           *)
(* startTime set, patrols k+1..5 are PENDING and patrols 1..k-1 are        *)
(* COMPLETED (only patrol k may be ACTIVE).                                *)
C28_PatrolsUsedAsPrefix ==
    \A slot \in Slots :
        state[slot] # NoShift =>
            /\ Len(state[slot].patrols) = NumPatrols
            /\ \E k \in 0 .. NumPatrols : UsedPrefix(state[slot], k)

\* the shift in progress has used two patrols, the second one active, and
\* the completed shift before it used exactly one
C28_Witness ==
    /\ ShiftActive(cur)
    /\ UsedPrefix(cur, 2)
    /\ PatrolActive(cur.patrols[2])
    /\ last # NoShift
    /\ UsedPrefix(last, 1)
    /\ PatrolCompleted(last.patrols[1])

----------------------------------------------------------------------------
(* C29: in every state reachable from the empty state by the operations    *)
(* the shift in currentShift, if present, has no endTime (an ended shift   *)
(* never stays in the current slot), and the shift in lastCompletedShift,  *)
(* if present, has endTime set and each of its patrols is PENDING or       *)
(* COMPLETED, never ACTIVE.                                                *)
C29_SlotsHoldTheirKind ==
    /\ cur # NoShift => ~Truthy(cur.endTime)
    /\ last # NoShift =>
          /\ Truthy(last.endTime)
          /\ \A i \in DOMAIN last.patrols :
                 PatrolPending(last.patrols[i]) \/ PatrolCompleted(last.patrols[i])
          /\ ActivePatrols(last) = {}

\* a shift in progress with an active patrol next to a completed shift
\* whose patrol was closed by endShift
C29_Witness ==
    /\ ShiftActive(cur)
    /\ ActivePatrols(cur) = {1}
    /\ last # NoShift
    /\ PatrolCompleted(last.patrols[1])
    /\ last.patrols[1].endTime = last.endTime
    /\ PatrolPending(last.patrols[2])

----------------------------------------------------------------------------
(* C30: when resetAllData is called with data present and the              *)
(* confirmation is declined, nothing changes: currentShift,                *)
(* lastCompletedShift and the persisted blob are exactly as before.        *)
C30_DeclinedResetChangesNothing ==
    [][ (resetAllData(FALSE) /\ HasAnyData) =>
            /\ cur' = cur
            /\ last' = last
            /\ state' = state
            /\ storage' = storage ]_vars

\* a declined resetAllData ran with both slots occupied and a stored blob
C30_Witness ==
    /\ RanAsNoOp("resetAllData", 0)
    /\ cur # NoShift
    /\ last # NoShift
    /\ storage # NoBlob

====
